---- MODULE Spec2Model ----
(***************************************************************************)
(* Model of gpt_index/indices/response/builder.py: the ResponseBuilder     *)
(* that folds retrieved text chunks into one answer by calling a           *)
(* completion service (LLMPredictor.predict / LLMPredictor.stream).        *)
(*                                                                         *)
(* A text is a sequence of tokens.  A response value is None, a complete   *)
(* string or a generator; a generator is a handle on an entry of streams,  *)
(* which holds the pieces the generator still has to yield.                *)
(***************************************************************************)
EXTENDS Integers, Sequences, FiniteSets, TLC

\* ------------------------------------------------------------------ bounds
MaxTexts == 2
MaxSources == 1

\* ------------------------------------------------------------- collaborators
\* Token budget of one splitter piece (PromptHelper.get_text_splitter_given_prompt).
ChunkSize == 2
\* Relaxed ceiling used by PromptHelper.compact_text_chunks.
CompactSize == 4

\* ------------------------------------------------------------------ values
None == [kind |-> "none", text |-> <<>>, id |-> 0]
Str(t) == [kind |-> "str", text |-> t, id |-> 0]
Gen(k) == [kind |-> "gen", text |-> <<>>, id |-> k]
Pending == [kind |-> "pending", text |-> <<>>, id |-> 0]
Raised(e) == [kind |-> "raised", text |-> <<e>>, id |-> 0]

EmptyResponse == <<"Empty Response">>

\* class TextChunk: text, is_answer (default False)
TextChunk(t, a) == [text |-> t, is_answer |-> a]

\* class ResponseMode, plus one value outside the enumeration
ResponseMode == {"default", "compact", "tree_summarize", "no_text"}
ModeValues == ResponseMode \cup {"bogus"}

\* ------------------------------------------------------------------ inputs
\* Chunks a caller may add.
InputChunks ==
    { TextChunk(<<>>, TRUE),
      TextChunk(<<"a">>, TRUE),
      TextChunk(<<"a">>, FALSE),
      TextChunk(<<"a", "b", "c">>, FALSE) }
\* prev_response arguments of get_response.
PrevResponses == {None, Str(<<>>), Str(<<"p">>)}
\* What predict may return.
PredictOutputs == {<<>>, <<"x">>}
\* What a generator returned by stream may yield, piece by piece.
StreamOutputs == { <<>>, << <<"x">>, <<"y">> >> }
\* What predict or stream may raise.
CompletionErrors == {"TimeoutError", "RateLimitError"}
\* Root nodes the tree builder may return, keyed by position.
RootNodeMaps == { (0 :> <<"r">>), (3 :> <<"s">> @@ 1 :> <<"r">>) }
\* Source nodes a caller may add.
SourceNodeFrom(n, s) == [node |-> n, similarity |-> s]
InputNodes == {"n1"}
InputSimilarities == {"none", "high"}

VARIABLES
    texts,              \* self._texts
    source_nodes,       \* self.source_nodes
    streaming,          \* self._streaming
    pc,                 \* position of the call in progress
    entry,              \* "sync" (get_response) or "async" (aget_response)
    mode,               \* mode argument
    prev,               \* prev_response argument
    chunks,             \* text_chunks of get_response_over_chunks
    ci,                 \* position of its loop
    prev_response_obj,  \* its prev_response_obj
    response,           \* its response
    g_pieces,           \* text_chunks of give_response_single
    gi,                 \* position of its loop
    g_resp,             \* its response
    r_in,               \* response argument of refine_response_single
    r_text,             \* its text_chunk argument
    r_ret,              \* its caller: "fold" or "give"
    r_existing,         \* existing_answer bound in its refine_template
    r_pieces,           \* its text_chunks
    ri,                 \* position of its loop
    r_resp,             \* its response
    calls,              \* completion-service calls of this get_response, in order
    streams,            \* generators returned by stream: pieces and read position
    result,             \* value returned
    error,              \* exception raised
    nSizing,            \* prompt-helper calls of this get_response
    nTree,              \* tree-builder calls of this get_response
    rinv,               \* refine_response_single invocations of this get_response
    added_texts,        \* history: chunks passed in since construction or reset
    added_sources       \* history: sources passed in since construction or reset

vars == << texts, source_nodes, streaming, pc, entry, mode, prev, chunks, ci,
           prev_response_obj, response, g_pieces, gi, g_resp, r_in, r_text,
           r_ret, r_existing, r_pieces, ri, r_resp, calls, streams, result,
           error, nSizing, nTree, rinv, added_texts, added_sources >>

stateVars == << texts, source_nodes, streaming, added_texts, added_sources >>
foldVars == << chunks, ci, prev_response_obj, response >>
giveVars == << g_pieces, gi, g_resp >>
refineVars == << r_in, r_text, r_ret, r_existing, r_pieces, ri, r_resp >>
callVars == << entry, mode, prev >>
outVars == << result, error >>
countVars == << nSizing, nTree >>

\* ------------------------------------------------------------- pure helpers
SeqsUpTo(S, n) == UNION { [1..k -> S] : k \in 0..n }

RECURSIVE Concat(_)
\* get_response_text: response_text += piece, for each piece in order
Concat(ps) == IF ps = <<>> THEN <<>> ELSE Head(ps) \o Concat(Tail(ps))

RECURSIVE SplitText(_)
\* TokenTextSplitter.split_text: pieces of at most ChunkSize tokens, at least one
SplitText(t) ==
    IF Len(t) <= ChunkSize THEN <<t>>
    ELSE <<SubSeq(t, 1, ChunkSize)>> \o SplitText(SubSeq(t, ChunkSize + 1, Len(t)))

RECURSIVE JoinTexts(_, _)
\* sep.join(ts)
JoinTexts(ts, sep) ==
    IF ts = <<>> THEN <<>>
    ELSE IF Len(ts) = 1 THEN ts[1]
    ELSE ts[1] \o sep \o JoinTexts(Tail(ts), sep)

RECURSIVE CompactTextChunks(_)
\* PromptHelper.compact_text_chunks: merge adjacent texts, in order, while the
\* merged text stays within CompactSize; a text is never split
CompactTextChunks(ts) ==
    IF Len(ts) <= 1 THEN ts
    ELSE IF Len(ts[1]) + Len(ts[2]) <= CompactSize
         THEN CompactTextChunks(<<ts[1] \o ts[2]>> \o SubSeq(ts, 3, Len(ts)))
         ELSE <<ts[1]>> \o CompactTextChunks(Tail(ts))

ChunkTexts(cs) == [i \in 1..Len(cs) |-> cs[i].text]

RECURSIVE SortedNodeList(_)
\* get_sorted_node_list: the nodes of the map by increasing key
SortedNodeList(m) ==
    IF DOMAIN m = {} THEN <<>>
    ELSE LET k == CHOOSE x \in DOMAIN m : \A y \in DOMAIN m : x <= y
         IN <<m[k]>> \o SortedNodeList([j \in DOMAIN m \ {k} |-> m[j]])

\* PromptHelper.get_text_from_nodes: the nodes' texts, one per line
TextFromNodes(ns) == JoinTexts(ns, <<"\n">>)

\* response = response or "Empty Response", for a str only
Normalize(v) ==
    IF v.kind = "str" THEN (IF v.text = <<>> THEN Str(EmptyResponse) ELSE v)
    ELSE v

Quiescent == pc \in {"idle", "done", "raised"}

\* No call in progress: the locals of the previous call are gone.
ClearCall ==
    /\ pc' = "idle"
    /\ entry' = "sync" /\ mode' = "default" /\ prev' = None
    /\ chunks' = <<>> /\ ci' = 1 /\ prev_response_obj' = None /\ response' = None
    /\ g_pieces' = <<>> /\ gi' = 1 /\ g_resp' = None
    /\ r_in' = None /\ r_text' = <<>> /\ r_ret' = "fold" /\ r_existing' = <<>>
    /\ r_pieces' = <<>> /\ ri' = 1 /\ r_resp' = None
    /\ calls' = <<>> /\ streams' = <<>> /\ result' = None /\ error' = "none"
    /\ nSizing' = 0 /\ nTree' = 0 /\ rinv' = 0

\* The locals of a fresh call.
FreshLocals ==
    /\ ci' = 1 /\ response' = None
    /\ g_pieces' = <<>> /\ gi' = 1 /\ g_resp' = None
    /\ r_in' = None /\ r_text' = <<>> /\ r_ret' = "fold" /\ r_existing' = <<>>
    /\ r_pieces' = <<>> /\ ri' = 1 /\ r_resp' = None
    /\ calls' = <<>> /\ streams' = <<>> /\ rinv' = 0

Init ==
    /\ texts \in SeqsUpTo(InputChunks, 1)
    /\ source_nodes = <<>>
    /\ streaming \in BOOLEAN
    /\ pc = "idle"
    /\ entry = "sync" /\ mode = "default" /\ prev = None
    /\ chunks = <<>> /\ ci = 1 /\ prev_response_obj = None /\ response = None
    /\ g_pieces = <<>> /\ gi = 1 /\ g_resp = None
    /\ r_in = None /\ r_text = <<>> /\ r_ret = "fold" /\ r_existing = <<>>
    /\ r_pieces = <<>> /\ ri = 1 /\ r_resp = None
    /\ calls = <<>> /\ streams = <<>> /\ result = None /\ error = "none"
    /\ nSizing = 0 /\ nTree = 0 /\ rinv = 0
    /\ added_texts = texts
    /\ added_sources = <<>>

\* ------------------------------------------------------------ bookkeeping
\* add_text_chunks leaving out the chunks that are stored already.
add_text_chunks_dedup ==
    /\ Quiescent
    /\ \E cs \in SeqsUpTo(InputChunks, 2) :
          /\ cs # <<>>
          /\ Len(texts) + Len(cs) <= MaxTexts
          /\ texts' = texts \o SelectSeq(cs,
                          LAMBDA c : \A i \in 1..Len(texts) : texts[i] # c)
          /\ added_texts' = added_texts \o cs
    /\ ClearCall
    /\ UNCHANGED << source_nodes, streaming, added_sources >>

\* add_text_chunks: self._texts.extend(text_chunks)
add_text_chunks ==
    /\ Quiescent
    /\ \E cs \in SeqsUpTo(InputChunks, 2) :
          /\ cs # <<>>
          /\ Len(texts) + Len(cs) <= MaxTexts
          /\ texts' = texts \o cs
          /\ added_texts' = added_texts \o cs
    /\ ClearCall
    /\ UNCHANGED << source_nodes, streaming, added_sources >>

\* reset: self._texts = []; self.source_nodes = []
reset ==
    /\ Quiescent
    /\ texts' = <<>>
    /\ source_nodes' = <<>>
    /\ added_texts' = <<>>
    /\ added_sources' = <<>>
    /\ ClearCall
    /\ UNCHANGED streaming

\* add_node_as_source: append SourceNode.from_node(node, similarity)
add_node_as_source ==
    /\ Quiescent
    /\ Len(source_nodes) < MaxSources
    /\ \E n \in InputNodes, s \in InputSimilarities :
          /\ source_nodes' = Append(source_nodes, SourceNodeFrom(n, s))
          /\ added_sources' = Append(added_sources, SourceNodeFrom(n, s))
    /\ ClearCall
    /\ UNCHANGED << texts, streaming, added_texts >>

\* add_source_node: append the source node as given
add_source_node ==
    /\ Quiescent
    /\ Len(source_nodes) < MaxSources
    /\ \E n \in InputNodes, s \in InputSimilarities :
          /\ source_nodes' = Append(source_nodes, SourceNodeFrom(n, s))
          /\ added_sources' = Append(added_sources, SourceNodeFrom(n, s))
    /\ ClearCall
    /\ UNCHANGED << texts, streaming, added_texts >>

\* get_sources: return self.source_nodes
get_sources ==
    /\ Quiescent
    /\ pc' = "done"
    /\ entry' = "sources" /\ mode' = "default" /\ prev' = None
    /\ chunks' = <<>> /\ prev_response_obj' = None
    /\ FreshLocals
    /\ result' = [kind |-> "sources", text |-> source_nodes, id |-> 0]
    /\ error' = "none" /\ nSizing' = 0 /\ nTree' = 0
    /\ UNCHANGED stateVars

\* ---------------------------------------------------------------- dispatch
\* Handler with the else branch falling through to the default mode.
HandlerFallthrough(m) ==
    CASE m = "default" -> "default"
      [] m = "compact" -> "compact"
      [] m = "tree_summarize" -> "tree_summarize"
      [] OTHER -> "default"

\* get_response: the branch taken for a mode value
Handler(m) ==
    CASE m = "default" -> "default"
      [] m = "compact" -> "compact"
      [] m = "tree_summarize" -> "tree_summarize"
      [] OTHER -> "invalid"

\* AHandler with the compact branch calling _get_response_default.
AHandlerCompactAsDefault(m) ==
    CASE m = "default" -> "default"
      [] m = "compact" -> "default"
      [] m = "tree_summarize" -> "atree_summarize"
      [] OTHER -> "invalid"

\* aget_response: the branch taken for a mode value
AHandler(m) ==
    CASE m = "default" -> "default"
      [] m = "compact" -> "compact"
      [] m = "tree_summarize" -> "atree_summarize"
      [] OTHER -> "invalid"

\* _get_response_default: get_response_over_chunks(query_str, self._texts, prev)
get_response_default(p) ==
    /\ chunks' = texts
    /\ prev_response_obj' = p
    /\ pc' = "fold"
    /\ error' = "none" /\ nSizing' = 0 /\ nTree' = 0

\* _get_response_compact: get_biggest_prompt, compact_text_chunks, then the
\* fold over TextChunk(text=t) for the repacked texts
get_response_compact(p) ==
    /\ chunks' = LET new_texts == CompactTextChunks(ChunkTexts(texts))
                 IN [i \in 1..Len(new_texts) |-> TextChunk(new_texts[i], FALSE)]
    /\ prev_response_obj' = p
    /\ pc' = "fold"
    /\ error' = "none" /\ nSizing' = 2 /\ nTree' = 0

\* _get_response_tree_summarize / _aget_response_tree_summarize up to the
\* tree builder's call: join, split into leaves, build_index_from_nodes
get_response_tree_summarize(p, h) ==
    /\ chunks' = <<>>
    /\ prev_response_obj' = None
    /\ pc' = IF h = "atree_summarize" THEN "tree_await" ELSE "tree_build"
    /\ error' = "none" /\ nSizing' = 2 /\ nTree' = 1

\* raise ValueError(f"Invalid mode: {mode}")
raise_invalid_mode ==
    /\ chunks' = <<>>
    /\ prev_response_obj' = None
    /\ pc' = "raised"
    /\ error' = "ValueError" /\ nSizing' = 0 /\ nTree' = 0

Dispatch(h, p) ==
    CASE h = "default" -> get_response_default(p)
      [] h = "compact" -> get_response_compact(p)
      [] h \in {"tree_summarize", "atree_summarize"} -> get_response_tree_summarize(p, h)
      [] OTHER -> raise_invalid_mode

get_response ==
    /\ Quiescent
    /\ \E m \in ModeValues, p \in PrevResponses :
          /\ entry' = "sync" /\ mode' = m /\ prev' = p
          /\ Dispatch(Handler(m), p)
    /\ FreshLocals
    /\ result' = None
    /\ UNCHANGED stateVars

aget_response ==
    /\ Quiescent
    /\ \E m \in ModeValues, p \in PrevResponses :
          /\ entry' = "async" /\ mode' = m /\ prev' = p
          /\ Dispatch(AHandler(m), p)
    /\ FreshLocals
    /\ result' = None
    /\ UNCHANGED stateVars

\* ------------------------------------------------------------ tree builder
\* TreeBuildReturn with the fold started without the caller's prev_response.
TreeBuildReturnDropsPrior ==
    /\ pc \in {"tree_build", "tree_await"}
    /\ \E root_nodes \in RootNodeMaps :
          LET node_list == SortedNodeList(root_nodes)
              node_text == TextFromNodes(node_list)
          IN chunks' = << TextChunk(node_text, FALSE) >>
    /\ prev_response_obj' = None
    /\ pc' = "fold"
    /\ nSizing' = nSizing + 1
    /\ UNCHANGED << stateVars, callVars, ci, response, giveVars, refineVars,
                    calls, streams, outVars, nTree, rinv >>

\* build_index_from_nodes / abuild_index_from_nodes returns root_nodes; then
\* _get_tree_response_over_root_nodes starts the fold over one TextChunk
TreeBuildReturn ==
    /\ pc \in {"tree_build", "tree_await"}
    /\ \E root_nodes \in RootNodeMaps :
          LET node_list == SortedNodeList(root_nodes)
              node_text == TextFromNodes(node_list)
          IN chunks' = << TextChunk(node_text, FALSE) >>
    /\ prev_response_obj' = prev
    /\ pc' = "fold"
    /\ nSizing' = nSizing + 1
    /\ UNCHANGED << stateVars, callVars, ci, response, giveVars, refineVars,
                    calls, streams, outVars, nTree, rinv >>

\* the tree builder raises
TreeBuildFail ==
    /\ pc \in {"tree_build", "tree_await"}
    /\ pc' = "raised"
    /\ error' = "TreeBuilderError"
    /\ UNCHANGED << stateVars, callVars, foldVars, giveVars, refineVars,
                    calls, streams, result, countVars, rinv >>

\* ------------------------------------------------- get_response_over_chunks
\* IsAnswer with the is_answer flag ignored.
IsAnswerNever(text_chunk) == FALSE

\* if text_chunk.is_answer
IsAnswer(text_chunk) == text_chunk.is_answer

\* FoldStep testing is_answer before prev_response_obj.
FoldStepAnswerFirst ==
    /\ pc = "fold"
    /\ ci <= Len(chunks)
    /\ LET text_chunk == chunks[ci] IN
         IF IsAnswer(text_chunk)
         THEN /\ response' = Str(text_chunk.text)
              /\ prev_response_obj' = Str(text_chunk.text)
              /\ ci' = ci + 1
              /\ pc' = "fold"
              /\ UNCHANGED << giveVars, r_in, r_text, r_ret, nSizing, rinv >>
         ELSE IF prev_response_obj = None
         THEN /\ g_pieces' = SplitText(text_chunk.text)
              /\ gi' = 1
              /\ g_resp' = None
              /\ nSizing' = nSizing + 2
              /\ pc' = "give"
              /\ UNCHANGED << ci, prev_response_obj, response,
                              r_in, r_text, r_ret, rinv >>
         ELSE /\ r_in' = prev_response_obj
              /\ r_text' = text_chunk.text
              /\ r_ret' = "fold"
              /\ rinv' = rinv + 1
              /\ pc' = "refine_enter"
              /\ UNCHANGED << ci, prev_response_obj, response, giveVars, nSizing >>
    /\ UNCHANGED << stateVars, callVars, chunks, r_existing, r_pieces, ri, r_resp,
                    calls, streams, outVars, nTree >>

\* One pass of `for text_chunk in text_chunks`, up to the call it makes.
FoldStep ==
    /\ pc = "fold"
    /\ ci <= Len(chunks)
    /\ LET text_chunk == chunks[ci] IN
         IF prev_response_obj = None
         THEN IF IsAnswer(text_chunk)
              THEN \* response = text_chunk.text; prev_response_obj = response
                   /\ response' = Str(text_chunk.text)
                   /\ prev_response_obj' = Str(text_chunk.text)
                   /\ ci' = ci + 1
                   /\ pc' = "fold"
                   /\ UNCHANGED << giveVars, r_in, r_text, r_ret, nSizing, rinv >>
              ELSE \* give_response_single(query_str, text_chunk.text)
                   /\ g_pieces' = SplitText(text_chunk.text)
                   /\ gi' = 1
                   /\ g_resp' = None
                   /\ nSizing' = nSizing + 2
                   /\ pc' = "give"
                   /\ UNCHANGED << ci, prev_response_obj, response,
                                   r_in, r_text, r_ret, rinv >>
         ELSE \* refine_response_single(prev_response_obj, query_str, text_chunk.text)
              /\ r_in' = prev_response_obj
              /\ r_text' = text_chunk.text
              /\ r_ret' = "fold"
              /\ rinv' = rinv + 1
              /\ pc' = "refine_enter"
              /\ UNCHANGED << ci, prev_response_obj, response, giveVars, nSizing >>
    /\ UNCHANGED << stateVars, callVars, chunks, r_existing, r_pieces, ri, r_resp,
                    calls, streams, outVars, nTree >>

\* FoldReturn without the "Empty Response" replacement.
FoldReturnRaw ==
    /\ pc = "fold"
    /\ ci > Len(chunks)
    /\ result' = response
    /\ pc' = "done"
    /\ UNCHANGED << stateVars, callVars, foldVars, giveVars, refineVars,
                    calls, streams, error, countVars, rinv >>

\* FoldReturn emptying the stored chunks once the answer is built.
FoldReturnClearsTexts ==
    /\ pc = "fold"
    /\ ci > Len(chunks)
    /\ result' = IF mode = "tree_summarize"
                 THEN Normalize(Normalize(response))
                 ELSE Normalize(response)
    /\ pc' = "done"
    /\ texts' = <<>>
    /\ UNCHANGED << source_nodes, streaming, added_texts, added_sources,
                    callVars, foldVars, giveVars, refineVars, calls, streams,
                    error, countVars, rinv >>

\* After the loop: normalize a str, return.  _get_tree_response_over_root_nodes
\* normalizes the returned value once more.
FoldReturn ==
    /\ pc = "fold"
    /\ ci > Len(chunks)
    /\ result' = IF mode = "tree_summarize"
                 THEN Normalize(Normalize(response))
                 ELSE Normalize(response)
    /\ pc' = "done"
    /\ UNCHANGED << stateVars, callVars, foldVars, giveVars, refineVars,
                    calls, streams, error, countVars, rinv >>

\* ----------------------------------------------------- give_response_single
\* A record of one completion-service call.
Call(tmpl, method, existing, context) ==
    [ tmpl |-> tmpl, method |-> method, existing |-> existing,
      context |-> context, frag |-> ci, rinv |-> IF tmpl = "refine" THEN rinv ELSE 0,
      piece |-> IF tmpl = "refine" THEN ri ELSE gi,
      src |-> IF tmpl = "refine" THEN r_in ELSE None, out |-> Pending ]

\* GiveIssue entered on `not response` in place of `response is None`.
GiveIssueFalsy ==
    /\ pc = "give"
    /\ gi <= Len(g_pieces)
    /\ (g_resp = None \/ g_resp = Str(<<>>))
    /\ calls' = Append(calls, Call("qa", IF streaming THEN "stream" ELSE "predict",
                                   None, g_pieces[gi]))
    /\ pc' = "call"
    /\ UNCHANGED << stateVars, callVars, foldVars, giveVars, refineVars,
                    streams, outVars, countVars, rinv >>

\* response is None: predict or stream with text_qa_template
GiveIssue ==
    /\ pc = "give"
    /\ gi <= Len(g_pieces)
    /\ g_resp = None
    /\ calls' = Append(calls, Call("qa", IF streaming THEN "stream" ELSE "predict",
                                   None, g_pieces[gi]))
    /\ pc' = "call"
    /\ UNCHANGED << stateVars, callVars, foldVars, giveVars, refineVars,
                    streams, outVars, countVars, rinv >>

\* response is not None: refine_response_single(response, query_str, cur_text_chunk)
GiveRefine ==
    /\ pc = "give"
    /\ gi <= Len(g_pieces)
    /\ g_resp # None
    /\ r_in' = g_resp
    /\ r_text' = g_pieces[gi]
    /\ r_ret' = "give"
    /\ rinv' = rinv + 1
    /\ pc' = "refine_enter"
    /\ UNCHANGED << stateVars, callVars, foldVars, giveVars, r_existing, r_pieces,
                    ri, r_resp, calls, streams, outVars, countVars >>

\* GiveReturn with prev_response_obj left as it was.
GiveReturnKeepNone ==
    /\ pc = "give"
    /\ gi > Len(g_pieces)
    /\ response' = Normalize(g_resp)
    /\ ci' = ci + 1
    /\ pc' = "fold"
    /\ UNCHANGED << stateVars, callVars, chunks, prev_response_obj, giveVars,
                    refineVars, calls, streams, outVars, countVars, rinv >>

\* GiveReturn without the "Empty Response" replacement.
GiveReturnRaw ==
    /\ pc = "give"
    /\ gi > Len(g_pieces)
    /\ response' = g_resp
    /\ prev_response_obj' = g_resp
    /\ ci' = ci + 1
    /\ pc' = "fold"
    /\ UNCHANGED << stateVars, callVars, chunks, giveVars, refineVars,
                    calls, streams, outVars, countVars, rinv >>

\* After the loop: normalize a str, return to get_response_over_chunks, which
\* sets prev_response_obj = response.
GiveReturn ==
    /\ pc = "give"
    /\ gi > Len(g_pieces)
    /\ response' = Normalize(g_resp)
    /\ prev_response_obj' = Normalize(g_resp)
    /\ ci' = ci + 1
    /\ pc' = "fold"
    /\ UNCHANGED << stateVars, callVars, chunks, giveVars, refineVars,
                    calls, streams, outVars, countVars, rinv >>

\* --------------------------------------------------- refine_response_single
\* IsGenerator with the generator case missing.
IsGeneratorNever(v) == FALSE

\* isinstance(response, Generator)
IsGenerator(v) == v.kind = "gen"

\* partial_format(query_str, existing_answer=response), the splitter for that
\* template, split_text(text_chunk)
RefineFormat(v) ==
    /\ r_existing' = v.text
    /\ r_pieces' = SplitText(r_text)
    /\ ri' = 1
    /\ nSizing' = nSizing + 2
    /\ pc' = "refine"

\* Entry: a generator is handed to get_response_text, a str is used as it is.
RefineEnter ==
    /\ pc = "refine_enter"
    /\ IF IsGenerator(r_in)
       THEN /\ r_resp' = Str(<<>>)
            /\ pc' = "drain"
            /\ UNCHANGED << r_existing, r_pieces, ri, nSizing >>
       ELSE /\ r_resp' = r_in
            /\ RefineFormat(r_in)
    /\ UNCHANGED << stateVars, callVars, foldVars, giveVars, r_in, r_text, r_ret,
                    calls, streams, outVars, nTree, rinv >>

\* get_response_text: one more piece of the generator is appended
DrainStep ==
    /\ pc = "drain"
    /\ LET s == streams[r_in.id] IN
         /\ s.pos < Len(s.pieces)
         /\ r_resp' = Str(r_resp.text \o s.pieces[s.pos + 1])
         /\ streams' = [streams EXCEPT ![r_in.id].pos = s.pos + 1]
    /\ UNCHANGED << stateVars, callVars, foldVars, giveVars, r_in, r_text, r_ret,
                    r_existing, r_pieces, ri, calls, outVars, countVars, rinv, pc >>

\* get_response_text: the generator is exhausted, response is the text read
DrainDone ==
    /\ pc = "drain"
    /\ streams[r_in.id].pos = Len(streams[r_in.id].pieces)
    /\ RefineFormat(r_resp)
    /\ UNCHANGED << stateVars, callVars, foldVars, giveVars, r_in, r_text, r_ret,
                    r_resp, calls, streams, outVars, nTree, rinv >>

\* RefineIssue going on to the next piece without waiting for the call.
RefineIssueNoWait ==
    /\ pc = "refine"
    /\ ri <= Len(r_pieces)
    /\ calls' = Append(calls, Call("refine", IF streaming THEN "stream" ELSE "predict",
                                   Str(r_existing), r_pieces[ri]))
    /\ ri' = ri + 1
    /\ UNCHANGED << stateVars, callVars, foldVars, giveVars, r_in, r_text, r_ret,
                    r_existing, r_pieces, r_resp, streams, outVars, countVars,
                    rinv, pc >>

\* RefineIssue calling predict whatever the streaming flag.
RefineIssuePredictOnly ==
    /\ pc = "refine"
    /\ ri <= Len(r_pieces)
    /\ calls' = Append(calls, Call("refine", "predict", Str(r_existing), r_pieces[ri]))
    /\ pc' = "call"
    /\ UNCHANGED << stateVars, callVars, foldVars, giveVars, refineVars,
                    streams, outVars, countVars, rinv >>

\* One pass of `for cur_text_chunk in text_chunks`: predict or stream with the
\* refine_template formatted before the loop
RefineIssue ==
    /\ pc = "refine"
    /\ ri <= Len(r_pieces)
    /\ calls' = Append(calls, Call("refine", IF streaming THEN "stream" ELSE "predict",
                                   Str(r_existing), r_pieces[ri]))
    /\ pc' = "call"
    /\ UNCHANGED << stateVars, callVars, foldVars, giveVars, refineVars,
                    streams, outVars, countVars, rinv >>

\* return response
RefineReturn ==
    /\ pc = "refine"
    /\ ri > Len(r_pieces)
    /\ IF r_ret = "fold"
       THEN \* get_response_over_chunks: prev_response_obj = response
            /\ response' = r_resp
            /\ prev_response_obj' = r_resp
            /\ ci' = ci + 1
            /\ pc' = "fold"
            /\ UNCHANGED giveVars
       ELSE \* give_response_single: next cur_text_chunk
            /\ g_resp' = r_resp
            /\ gi' = gi + 1
            /\ pc' = "give"
            /\ UNCHANGED << g_pieces, ci, prev_response_obj, response >>
    /\ UNCHANGED << stateVars, callVars, chunks, refineVars,
                    calls, streams, outVars, countVars, rinv >>

\* ------------------------------------------------------- completion service
\* The caller's `response, _ = ...` and the next pass of its loop.
Resume(val) ==
    /\ calls' = [calls EXCEPT ![Len(calls)].out = val]
    /\ IF calls[Len(calls)].tmpl = "qa"
       THEN /\ g_resp' = val
            /\ gi' = gi + 1
            /\ pc' = "give"
            /\ UNCHANGED << ri, r_resp >>
       ELSE /\ r_resp' = val
            /\ ri' = ri + 1
            /\ pc' = "refine"
            /\ UNCHANGED << gi, g_resp >>

\* llm_predictor.predict returns a text
PredictReturn ==
    /\ pc = "call"
    /\ calls[Len(calls)].method = "predict"
    /\ \E t \in PredictOutputs : Resume(Str(t))
    /\ UNCHANGED << stateVars, callVars, foldVars, g_pieces, r_in, r_text, r_ret,
                    r_existing, r_pieces, streams, outVars, countVars, rinv >>

\* llm_predictor.stream returns a generator nothing has read yet
StreamReturn ==
    /\ pc = "call"
    /\ calls[Len(calls)].method = "stream"
    /\ \E ps \in StreamOutputs :
          /\ streams' = Append(streams, [pieces |-> ps, pos |-> 0])
          /\ Resume(Gen(Len(streams) + 1))
    /\ UNCHANGED << stateVars, callVars, foldVars, g_pieces, r_in, r_text, r_ret,
                    r_existing, r_pieces, outVars, countVars, rinv >>

\* CallFail with the failed call made again by the caller's loop.
CallFailRetry ==
    /\ pc = "call"
    /\ \E e \in CompletionErrors :
          calls' = [calls EXCEPT ![Len(calls)].out = Raised(e)]
    /\ pc' = IF calls[Len(calls)].tmpl = "qa" THEN "give" ELSE "refine"
    /\ UNCHANGED << stateVars, callVars, foldVars, giveVars, refineVars,
                    streams, outVars, countVars, rinv >>

\* the completion service raises: nothing catches it
CallFail ==
    /\ pc = "call"
    /\ \E e \in CompletionErrors :
          /\ calls' = [calls EXCEPT ![Len(calls)].out = Raised(e)]
          /\ error' = e
    /\ pc' = "raised"
    /\ UNCHANGED << stateVars, callVars, foldVars, giveVars, refineVars,
                    streams, result, countVars, rinv >>

\* ------------------------------------------------------------ prompt helper
\* The next statement of the call in progress is a call of the prompt helper:
\* the splitter of give_response_single or of refine_response_single, or
\* get_text_from_nodes once the tree builder has returned.
AtPromptHelperCall ==
    \/ pc = "fold" /\ ci <= Len(chunks) /\ prev_response_obj = None
                   /\ ~IsAnswer(chunks[ci])
    \/ pc = "refine_enter" /\ ~IsGenerator(r_in)
    \/ pc = "drain" /\ streams[r_in.id].pos = Len(streams[r_in.id].pieces)
    \/ pc \in {"tree_build", "tree_await"}

\* the prompt helper raises inside the fold: nothing catches it
SizingFail ==
    /\ AtPromptHelperCall
    /\ pc' = "raised"
    /\ error' = "SizingError"
    /\ nSizing' = nSizing + 1
    /\ UNCHANGED << stateVars, callVars, foldVars, giveVars, refineVars,
                    calls, streams, result, nTree, rinv >>

\* the prompt helper raises in _get_response_compact or in
\* _get_tree_index_builder_and_nodes, before any other collaborator is called
SizingFailAtDispatch ==
    /\ Quiescent
    /\ \E e \in {"sync", "async"}, m \in {"compact", "tree_summarize"},
          p \in PrevResponses :
          entry' = e /\ mode' = m /\ prev' = p
    /\ chunks' = <<>>
    /\ prev_response_obj' = None
    /\ pc' = "raised"
    /\ error' = "SizingError" /\ nSizing' = 1 /\ nTree' = 0
    /\ FreshLocals
    /\ result' = None
    /\ UNCHANGED stateVars

\* ------------------------------------------------------------ specification
Next ==
    \/ add_text_chunks
    \/ reset
    \/ add_node_as_source
    \/ add_source_node
    \/ get_sources
    \/ get_response
    \/ aget_response
    \/ TreeBuildReturn
    \/ TreeBuildFail
    \/ FoldStep
    \/ FoldReturn
    \/ GiveIssue
    \/ GiveRefine
    \/ GiveReturn
    \/ RefineEnter
    \/ DrainStep
    \/ DrainDone
    \/ RefineIssue
    \/ RefineReturn
    \/ PredictReturn
    \/ StreamReturn
    \/ CallFail
    \/ SizingFail
    \/ SizingFailAtDispatch

Spec == Init /\ [][Next]_vars

\* ------------------------------------------------------------ properties
\* get_response or aget_response has returned a value.
Returned == pc = "done" /\ entry \in {"sync", "async"}

NoPrior == prev = None

QaCalls == { k \in 1..Len(calls) : calls[k].tmpl = "qa" }
RefineCalls == { k \in 1..Len(calls) : calls[k].tmpl = "refine" }
CallsFor(i) == { k \in 1..Len(calls) : calls[k].frag = i }

\* Every chunk of the fold fits in one piece of the splitter.
SinglePiece == \A i \in 1..Len(chunks) : Len(SplitText(chunks[i].text)) = 1

\* The text a response value stands for once read.
Materialized(v) ==
    IF v.kind = "gen" THEN Concat(streams[v.id].pieces) ELSE v.text

\* The first call of a refine_response_single invocation.
FirstOfInvocation(k) ==
    /\ calls[k].tmpl = "refine"
    /\ (k = 1 \/ calls[k - 1].rinv # calls[k].rinv)

\* C1 as stated: over N >= 1 single-piece chunks and no prior response, the
\* fold makes exactly 1 question-answering call and N-1 refine calls, the
\* i-th call carrying the i-th chunk's text as its context.
C1_SequentialCallCount ==
    (Returned /\ NoPrior /\ Len(chunks) >= 1 /\ SinglePiece) =>
        /\ Cardinality(QaCalls) = 1
        /\ Cardinality(RefineCalls) = Len(chunks) - 1
        /\ Len(calls) = Len(chunks)
        /\ \A i \in 1..Len(calls) : calls[i].context = chunks[i].text

\* C1 amended: when the first chunk is not flagged is_answer, call 1 is the
\* question-answering call on chunk 1 and call i > 1 is the refine call on
\* chunk i; when the first chunk is flagged is_answer there is no
\* question-answering call and the N-1 refine calls are on chunks 2..N in order.
C1_SequentialCallCountUnlessAnswer ==
    (Returned /\ NoPrior /\ Len(chunks) >= 1 /\ SinglePiece) =>
        IF ~chunks[1].is_answer
        THEN /\ Len(calls) = Len(chunks)
             /\ QaCalls = {1}
             /\ \A i \in 1..Len(calls) :
                   /\ calls[i].frag = i
                   /\ calls[i].context = chunks[i].text
        ELSE /\ Len(calls) = Len(chunks) - 1
             /\ QaCalls = {}
             /\ \A i \in 1..Len(calls) :
                   /\ calls[i].frag = i + 1
                   /\ calls[i].context = chunks[i + 1].text

C1_Witness ==
    /\ Returned /\ NoPrior /\ SinglePiece
    /\ Len(chunks) = 2
    /\ ~chunks[1].is_answer
    /\ Len(calls) = 2
    /\ calls[2].tmpl = "refine"

RefineCallCount(t) == Len(SplitText(t))

\* The completion-service calls give_response_single makes for a text: one
\* for the first piece, a refine_response_single for each further piece.
GiveCallCount(t) ==
    LET ps == SplitText(t)
        F[k \in 1..Len(ps)] ==
            IF k = 1 THEN 1 ELSE F[k - 1] + RefineCallCount(ps[k])
    IN F[Len(ps)]

RECURSIVE FoldCallCount(_, _)
\* The completion-service calls get_response_over_chunks makes over cs, where
\* has tells whether prev_response_obj is set.
FoldCallCount(cs, has) ==
    IF cs = <<>> THEN 0
    ELSE (IF has THEN RefineCallCount(cs[1].text)
          ELSE IF cs[1].is_answer THEN 0
          ELSE GiveCallCount(cs[1].text))
         + FoldCallCount(Tail(cs), TRUE)

\* FoldCallCount is the number of calls the fold makes.
FoldCallCountAgrees ==
    Returned => Len(calls) = FoldCallCount(chunks, prev # None)

\* C3: for the same stored chunks and the same prior response, Compact mode
\* makes no more completion-service calls than Direct mode, which folds the
\* stored chunks as they are.
C3_CompactAtMostDirect ==
    (Returned /\ mode = "compact") =>
        Len(calls) <= FoldCallCount(texts, prev # None)

\* C4: a generator handed to refine_response_single is read to its end
\* before the first refine call of that invocation is issued, and that call
\* binds existing_answer to the concatenation of the generator's pieces.
C4_StreamMaterialized ==
    /\ \A k \in 1..Len(calls) :
          (FirstOfInvocation(k) /\ calls[k].src.kind = "gen") =>
              /\ streams[calls[k].src.id].pos = Len(streams[calls[k].src.id].pieces)
              /\ calls[k].existing = Str(Concat(streams[calls[k].src.id].pieces))
    /\ pc = "drain" => \A k \in 1..Len(calls) : calls[k].rinv # rinv

C4_Witness ==
    /\ streaming
    /\ pc = "call"
    /\ FirstOfInvocation(Len(calls))
    /\ calls[Len(calls)].src.kind = "gen"
    /\ Len(streams[calls[Len(calls)].src.id].pieces) = 2
    /\ calls[Len(calls)].existing = Str(<<"x", "y">>)

\* C5: within one refine_response_single invocation, the call for piece k+1
\* binds existing_answer to the output of the call for piece k.
C5_PieceFeedsNextPiece ==
    \A k \in 1..(Len(calls) - 1) :
        (/\ calls[k].tmpl = "refine"
         /\ calls[k + 1].tmpl = "refine"
         /\ calls[k].rinv = calls[k + 1].rinv) =>
            calls[k + 1].existing = Str(Materialized(calls[k].out))

\* C6: without streaming no returned value is the empty string, and when the
\* last completion call for the only chunk returned the empty string the
\* value returned is "Empty Response".
C6_EmptyNormalized ==
    (Returned /\ ~streaming) =>
        /\ result # Str(<<>>)
        /\ (Len(chunks) = 1 /\ calls # <<>> /\ calls[Len(calls)].out = Str(<<>>)) =>
              result = Str(EmptyResponse)

C6_Witness ==
    /\ Returned /\ ~streaming
    /\ prev = Str(<<"p">>)
    /\ Len(chunks) = 1
    /\ Len(calls) = 1
    /\ calls[1].out = Str(<<>>)
    /\ result = Str(EmptyResponse)

\* The modes get_response and aget_response have a branch for.
WiredModes == {"default", "compact", "tree_summarize"}

\* C7: get_response or aget_response with a mode outside Direct, Compact
\* and Tree-summarize (no_text included) raises the invalid-mode error, makes
\* no completion-service, prompt-helper or tree-builder call, and leaves the
\* stored chunks and sources as they were.
C7_InvalidMode ==
    [][ (Quiescent /\ entry' \in {"sync", "async"} /\ pc' # "idle"
           /\ mode' \notin WiredModes) =>
            /\ pc' = "raised"
            /\ error' = "ValueError"
            /\ calls' = <<>>
            /\ nSizing' = 0
            /\ nTree' = 0
            /\ texts' = texts
            /\ source_nodes' = source_nodes ]_vars

C7_Witness ==
    /\ pc = "raised"
    /\ error = "ValueError"
    /\ mode = "no_text"
    /\ entry = "sync"
    /\ texts # <<>>
    /\ source_nodes # <<>>

\* The calls the completion service has not answered yet.
InFlight == { k \in 1..Len(calls) : calls[k].out = Pending }

\* C8: at most one completion call is in flight, and a call is issued only
\* after every earlier call has returned.
C8_CallsStrictlyOrdered ==
    /\ Cardinality(InFlight) <= 1
    /\ \A k \in 1..(Len(calls) - 1) : calls[k].out # Pending

C8_Witness ==
    /\ pc = "call"
    /\ Len(calls) = 3
    /\ InFlight = {3}
    /\ calls[2].rinv = calls[3].rinv

\* C9: over an empty chunk list with a prior response, the fold returns the
\* prior response and makes no completion-service call.
C9_EmptyListReturnsPrior ==
    (Returned /\ chunks = <<>> /\ prev # None) =>
        /\ result = prev
        /\ calls = <<>>

\* C10 as stated, for stored chunks that are not empty: in every wired mode
\* the value returned is a generator if the streaming flag is set and a
\* complete string otherwise.
C10_ShapeFollowsFlag ==
    (Returned /\ texts # <<>>) =>
        /\ streaming => result.kind = "gen"
        /\ ~streaming => result.kind = "str"

\* C10 amended: a generator is returned only if the streaming flag is set;
\* a call that made at least one completion call in the fold returns a
\* generator if the flag is set and a complete string otherwise; a call
\* that made none returns no generator.
C10_ShapeFollowsFlagAfterCall ==
    Returned =>
        /\ result.kind = "gen" => streaming
        /\ calls # <<>> =>
              /\ streaming => result.kind = "gen"
              /\ ~streaming => result.kind = "str"
        /\ calls = <<>> => result.kind # "gen"

C10_Witness ==
    /\ Returned /\ streaming /\ NoPrior
    /\ Len(chunks) = 2
    /\ chunks[1].is_answer
    /\ result.kind = "gen"

\* C11: no step of get_response, aget_response or get_sources, in any mode
\* and whether the call returns or raises, changes the stored chunks or the
\* stored sources; only the bookkeeping methods, which end with no call in
\* progress, do.
C11_CallsLeaveStateAlone ==
    [][ pc' # "idle" => (texts' = texts /\ source_nodes' = source_nodes) ]_vars

C11_Witness ==
    /\ pc = "done"
    /\ entry = "async"
    /\ mode = "tree_summarize"
    /\ texts # <<>>
    /\ source_nodes # <<>>
    /\ calls # <<>>

CallKey(k) == << calls[k].frag, calls[k].rinv, calls[k].piece, calls[k].tmpl >>

\* C14: no step's completion call is made twice; no completion call follows
\* a call that raised; a call that raised ends get_response with that very
\* exception and no value; a failure of the prompt helper or of the tree
\* builder ends it too, the tree builder's before any completion call.
C14_NoRetryFailureAborts ==
    /\ \A j, k \in 1..Len(calls) : j # k => CallKey(j) # CallKey(k)
    /\ \A k \in 1..(Len(calls) - 1) : calls[k].out.kind \notin {"raised", "pending"}
    /\ (calls # <<>> /\ calls[Len(calls)].out.kind = "raised") =>
          /\ pc = "raised"
          /\ error = calls[Len(calls)].out.text[1]
          /\ result = None
    /\ pc = "raised" => result = None
    /\ (pc = "raised" /\ error \in CompletionErrors) =>
          (calls # <<>> /\ calls[Len(calls)].out = Raised(error))
    /\ (pc = "raised" /\ error = "TreeBuilderError") => calls = <<>>

C14_Witness ==
    /\ pc = "raised"
    /\ Len(calls) = 2
    /\ calls[1].out = Str(<<"x">>)
    /\ calls[2].out = Raised("RateLimitError")
    /\ error = "RateLimitError"

\* A Direct-mode call without streaming and without prior response, over
\* chunks that fit in one piece each.
PlainDirectFold ==
    /\ entry \in {"sync", "async"}
    /\ mode = "default"
    /\ pc \notin {"idle"}
    /\ ~streaming
    /\ NoPrior
    /\ SinglePiece

\* Call k is the refine call for the chunk after the one call k-1 was for.
RefinesNextChunk(k) ==
    /\ calls[k].tmpl = "refine"
    /\ calls[k].frag = calls[k - 1].frag + 1

ContextsFor(i) ==
    LET ks == SelectSeq([k \in 1..Len(calls) |-> k], LAMBDA k : calls[k].frag = i)
    IN [j \in 1..Len(ks) |-> calls[ks[j]].context]

\* Chunk i went through refine_response_single: refine calls only, one for
\* each piece of its text, in order.
Refined(i) ==
    /\ CallsFor(i) # {}
    /\ \A k \in CallsFor(i) : calls[k].tmpl = "refine"
    /\ ContextsFor(i) = SplitText(chunks[i].text)

\* C16: with a prior response no question-answering call is ever made and
\* every chunk, the first one and those flagged is_answer included, is
\* refined, in list order; without a prior response every chunk after the
\* first is refined too, flagged is_answer or not.
C16_RunningResponseMeansRefine ==
    /\ (entry \in {"sync", "async"} /\ prev # None) => QaCalls = {}
    /\ \A j, k \in 1..Len(calls) : j < k => calls[j].frag <= calls[k].frag
    /\ Returned =>
          \A i \in 1..Len(chunks) : (prev # None \/ i > 1) => Refined(i)

C16_Witness ==
    /\ Returned
    /\ prev = Str(<<"p">>)
    /\ Len(chunks) = 2
    /\ chunks[1].is_answer
    /\ chunks[2].is_answer
    /\ Len(calls) = 2
    /\ calls[1].existing = Str(<<"p">>)
    /\ calls[1].context = chunks[1].text

\* The first chunk is handed to give_response_single: no running response
\* and no is_answer flag.
GivesFirstChunk ==
    /\ entry \in {"sync", "async"}
    /\ prev = None
    /\ chunks # <<>>
    /\ ~IsAnswer(chunks[1])

\* C17: give_response_single makes one question-answering call, for the
\* first piece of the chunk, and merges each later piece, in order, by a
\* refine invocation whose prior response is what the call before it
\* returned; no second question-answering call is made, whatever the first
\* one returned.
C17_OneAnswerCallThenRefine ==
    /\ QaCalls \subseteq {1}
    /\ \A k \in QaCalls :
          /\ GivesFirstChunk
          /\ calls[k].frag = 1
          /\ calls[k].context = SplitText(chunks[1].text)[1]
    /\ \A k \in 2..Len(calls) :
          calls[k].frag = 1 /\ GivesFirstChunk =>
             /\ calls[k].tmpl = "refine"
             /\ calls[k].src = calls[k - 1].out
             /\ calls[k].rinv = k - 1
             /\ calls[k].context = SplitText(chunks[1].text)[k]
    /\ (Returned /\ GivesFirstChunk) =>
          /\ QaCalls = {1}
          /\ ContextsFor(1) = SplitText(chunks[1].text)

C17_Witness ==
    /\ Returned
    /\ GivesFirstChunk
    /\ Len(SplitText(chunks[1].text)) = 2
    /\ calls[1].tmpl = "qa"
    /\ calls[1].out = Str(<<>>)
    /\ calls[2].tmpl = "refine"
    /\ calls[2].frag = 1

\* C17 witness, streaming: the first call returned a generator.
C17_WitnessStream ==
    /\ Returned
    /\ GivesFirstChunk
    /\ Len(SplitText(chunks[1].text)) = 2
    /\ calls[1].out.kind = "gen"
    /\ calls[2].tmpl = "refine"
    /\ calls[2].frag = 1

TreeRun == entry \in {"sync", "async"} /\ mode = "tree_summarize"

\* The tree builder has returned and the fold has started.
TreeFolding == TreeRun /\ chunks # <<>>

\* C18: in tree_summarize mode, from either entry point, no completion call
\* of the fold is issued before the tree builder has returned; the fold runs
\* over one chunk, not flagged is_answer, holding the root nodes' texts by
\* increasing position, with the caller's prior response: an initial-answer
\* call first when there is none, refine calls only when there is one. Only
\* the asynchronous entry point waits, and only for the tree builder.
C18_TreeBuildThenOneChunkFold ==
    /\ pc = "tree_await" => TreeRun /\ entry = "async"
    /\ pc = "tree_build" => TreeRun /\ entry = "sync"
    /\ TreeRun =>
          /\ (pc # "raised" \/ chunks # <<>>) => nTree = 1
          /\ pc \in {"tree_build", "tree_await"} => calls = <<>> /\ chunks = <<>>
          /\ calls # <<>> => chunks # <<>>
          /\ Returned => chunks # <<>>
    /\ TreeFolding =>
          /\ Len(chunks) = 1
          /\ ~chunks[1].is_answer
          /\ \E m \in RootNodeMaps :
                chunks[1].text = TextFromNodes(SortedNodeList(m))
          /\ prev_response_obj \in {prev} \cup {calls[k].out : k \in 1..Len(calls)}
                                          \cup {Normalize(calls[k].out) : k \in 1..Len(calls)}
          /\ \A k \in 1..Len(calls) : calls[k].frag = 1
          /\ (prev = None /\ calls # <<>>) =>
                /\ calls[1].tmpl = "qa"
                /\ calls[1].context = SplitText(chunks[1].text)[1]
          /\ prev # None =>
                /\ QaCalls = {}
                /\ calls # <<>> => calls[1].existing = prev
          /\ Returned => calls # <<>>

C18_Witness ==
    /\ Returned
    /\ TreeRun
    /\ entry = "async"
    /\ prev = Str(<<"p">>)
    /\ chunks = << TextChunk(<<"r", "\n", "s">>, FALSE) >>
    /\ Len(calls) = 2
    /\ calls[1].tmpl = "refine"
    /\ calls[1].existing = Str(<<"p">>)

\* ---------------------------------------------------------------------------
\* The blocking fold as a function of the stored chunks, the prior response
\* and what the completion service returned, with no reference to the entry
\* point: the list handed to get_response_over_chunks, the steps it takes over
\* that list, and the calls and value those steps produce.

\* The list _get_response_default / _get_response_compact folds over.
HandlerChunks(m) ==
    IF m = "compact"
    THEN LET new_texts == CompactTextChunks(ChunkTexts(texts))
         IN [i \in 1..Len(new_texts) |-> TextChunk(new_texts[i], FALSE)]
    ELSE texts

\* refine_response_single over text t: one call per piece, existing_answer
\* bound before the first.
RefineOps(t) ==
    LET ps == SplitText(t)
    IN [j \in 1..Len(ps) |-> [op |-> "refine", context |-> ps[j], first |-> j = 1]]

RECURSIVE FlatOps(_)
FlatOps(ss) == IF ss = <<>> THEN <<>> ELSE Head(ss) \o FlatOps(Tail(ss))

\* give_response_single over text t: the first piece answered, each later
\* piece refined, a str result normalized.
GiveOps(t) ==
    LET ps == SplitText(t)
    IN << [op |-> "qa", context |-> ps[1], first |-> TRUE] >>
       \o FlatOps([j \in 1..(Len(ps) - 1) |-> RefineOps(ps[j + 1])])
       \o << [op |-> "norm", context |-> <<>>, first |-> FALSE] >>

\* One pass of the loop of get_response_over_chunks; has: a running response exists.
ChunkOps(c, has) ==
    IF has THEN RefineOps(c.text)
    ELSE IF c.is_answer THEN << [op |-> "adopt", context |-> c.text, first |-> FALSE] >>
    ELSE GiveOps(c.text)

FoldOps(cs, p) ==
    FlatOps([i \in 1..Len(cs) |-> ChunkOps(cs[i], p # None \/ i > 1)])

\* What a call record shows of the prompt sent.
CallSig(c) ==
    [tmpl |-> c.tmpl, method |-> c.method, existing |-> c.existing, context |-> c.context]

RECURSIVE Replay(_, _, _, _)
\* The steps ops taken with running response R and bound existing_answer ex,
\* the k-th call being the next one, each call returning what the call log
\* holds for it: the calls issued, the value left, and whether the steps
\* were all taken.
Replay(ops, R, ex, k) ==
    IF ops = <<>> THEN [sigs |-> <<>>, val |-> R, complete |-> TRUE]
    ELSE LET o == Head(ops) IN
         IF o.op = "adopt" THEN Replay(Tail(ops), Str(o.context), ex, k)
         ELSE IF o.op = "norm" THEN Replay(Tail(ops), Normalize(R), ex, k)
         ELSE IF k > Len(calls) THEN [sigs |-> <<>>, val |-> R, complete |-> FALSE]
         ELSE LET e == IF o.op = "refine" /\ o.first THEN Materialized(R) ELSE ex
                  sig == [tmpl |-> o.op,
                          method |-> IF streaming THEN "stream" ELSE "predict",
                          existing |-> IF o.op = "qa" THEN None ELSE Str(e),
                          context |-> o.context]
                  rest == Replay(Tail(ops), calls[k].out, e, k + 1)
              IN [sigs |-> <<sig>> \o rest.sigs, val |-> rest.val,
                  complete |-> rest.complete]

\* What get_response_over_chunks returns: `response` is None until a pass of
\* the loop assigns it, and a str is normalized.
FoldValue(cs, v) == IF cs = <<>> THEN None ELSE Normalize(v)

BlockingRun ==
    pc # "idle" /\ entry \in {"sync", "async"} /\ mode \in {"default", "compact"}

\* C13: in default and compact mode the calls issued, in order, with their
\* templates and bound fields, and the value returned are one function of
\* the stored chunks, the prior response and what the completion service
\* returned, the same under get_response and aget_response; aget_response
\* waits for nothing in these modes.
C13_AsyncSameAsSync ==
    BlockingRun =>
       LET cs == HandlerChunks(mode)
           r == Replay(FoldOps(cs, prev), prev, <<>>, 1)
       IN /\ pc \notin {"tree_build", "tree_await"}
          /\ nTree = 0
          /\ (pc # "raised" \/ calls # <<>>) => chunks = cs
          /\ [k \in 1..Len(calls) |-> CallSig(calls[k])] = r.sigs
          /\ Returned =>
                /\ r.complete
                /\ result = FoldValue(cs, r.val)

C13_Witness ==
    /\ Returned
    /\ entry = "async"
    /\ mode = "compact"
    /\ prev = None
    /\ Len(texts) = 2
    /\ Len(chunks) = 1
    /\ Len(calls) = 2
    /\ calls[2].tmpl = "refine"

====
